---- MODULE Spec2Model ----
(***************************************************************************)
(* A model of the rust-asn1-der decoder: the Parser of src/lib.rs (cursor, *)
(* nesting stack, length fields, per-type readers), the ObjectIdentifier   *)
(* validator and digit iterator, the printable-string classifier and the   *)
(* Integer view.                                                           *)
(*                                                                         *)
(* Bytes are the integers 0..255 and a byte slice is a sequence of bytes.  *)
(* A Rust index i is the TLA+ index i + 1.  The platform word (usize) is   *)
(* 16 bits wide, the narrowest target Rust has, so that every word value   *)
(* is an integer TLC can hold.  Values of u32 and u64 are kept as their    *)
(* big-endian sequences of limbs for the same reason.                      *)
(***************************************************************************)
EXTENDS Integers, Sequences, FiniteSets, TLC

VARIABLES
    input,        \* Parser.input: the byte buffer of the session
    position,     \* Parser.position
    structures,   \* Parser.structures: the stack of open composites
    result,       \* what the most recent Parser::next() returned
    before,       \* position and structures as that call found them
    out,          \* the values returned by the successful calls, in order
    content,      \* the bytes handed to ObjectIdentifier::new
    oid,          \* what ObjectIdentifier::new returned
    iterContent,  \* ObjectIdentifierIterator.content
    iterState,    \* ObjectIdentifierIterator.state
    iterResult,   \* what the most recent iterator next() returned
    iterBefore,   \* iterator content and state as that call found them
    digits,       \* the digits the iterator has produced since iter()
    bs,           \* the bytes handed to to_printable_string
    psResult,     \* what to_printable_string returned
    intBytes,     \* the slice of an Integer view
    intResult     \* what as_u8, as_u32 and as_u64 returned for it

parserVars == <<input, position, structures, result, before, out>>
oidVars == <<content, oid, iterContent, iterState, iterResult, iterBefore, digits>>
psVars == <<bs, psResult>>
intVars == <<intBytes, intResult>>
vars == <<parserVars, oidVars, psVars, intVars>>

----------------------------------------------------------------------------
(* Bounds of the model. *)

\* The most chunks of ParserChunks a session's buffer is made of.
MaxChunks == 3
\* The same for the sessions checked for termination under fairness.
MaxFairChunks == 2
\* The longest byte string, over OidBytes, handed to ObjectIdentifier::new.
MaxOidLen == 6
\* The longest byte string, over PsBytes, handed to to_printable_string.
MaxPsLen == 3
\* The longest slice, over IntByteValues, of an Integer view.
MaxIntLen == 9

----------------------------------------------------------------------------
(* Generic helpers. *)

Byte == 0..255

Last(s) == s[Len(s)]
Front(s) == SubSeq(s, 1, Len(s) - 1)

RECURSIVE Pow2(_)
Pow2(n) == IF n = 0 THEN 1 ELSE 2 * Pow2(n - 1)

\* Bit k of the byte or 16-bit limb x.
Bit(x, k) == (x \div Pow2(k)) % 2

\* The concatenation of the sequences f[1], ..., f[Len(f)].
RECURSIVE Flatten(_)
Flatten(f) == IF Len(f) = 0 THEN <<>> ELSE Flatten(Front(f)) \o Last(f)

----------------------------------------------------------------------------
(* error.rs and the results of calls. *)

\* A call that has not been made yet.
NoCall == [kind |-> "NoCall"]

Err(e) == [kind |-> "Err", err |-> e]

\* A Rust panic: a slice index out of range, unreachable!().
Panic == [kind |-> "Panic"]

IsErr(r) == r.kind = "Err"
IsValue(r) == r.kind \notin {"NoCall", "Err", "Panic"}

\* The result of a failed helper: the cursor it leaves and its error.
Fail(pos, e) == [ok |-> FALSE, pos |-> pos, err |-> e]

\* A helper's error as the result of the call that propagates it (try!).
Raise(e) == IF e = "Panic" THEN Panic ELSE Err(e)

----------------------------------------------------------------------------
(* The platform word. *)

UsizeMax == 65535

RECURSIVE CountBytes(_, _)
CountBytes(surviving, count) ==
    IF surviving = 0 THEN count
    ELSE CountBytes(surviving \div 256, count + 1)

\* usize_bytes with the count started at 1: a faulty variant that C19 must
\* tell from usize_bytes.
usize_bytes_one_more == CountBytes(UsizeMax, 1)

usize_bytes == CountBytes(UsizeMax, 0)

UsizeModulus == UsizeMax + 1

----------------------------------------------------------------------------
(* printable_string.rs *)

\* The table with bit 10 of word 1 set as well, which lets '*' through: a
\* faulty variant that C7 must tell from the table.
PRINTABLE_CHAR_MASK_with_star ==
    << <<\h0000, \h0000>>,
       <<\hA7FF, \hFF81>>,
       <<\h07FF, \hFFFE>>,
       <<\h07FF, \hFFFE>>,
       <<\h0000, \h0000>>,
       <<\h0000, \h0000>>,
       <<\h0000, \h0000>>,
       <<\h0000, \h0000>> >>

\* Each u32 word of the table as <<high 16 bits, low 16 bits>>.
PRINTABLE_CHAR_MASK ==
    << <<\h0000, \h0000>>,
       <<\hA7FF, \hFB81>>,
       <<\h07FF, \hFFFE>>,
       <<\h07FF, \hFFFE>>,
       <<\h0000, \h0000>>,
       <<\h0000, \h0000>>,
       <<\h0000, \h0000>>,
       <<\h0000, \h0000>> >>

\* word & (1 << k) != 0, for a word kept as two limbs and k in 0..31.
WordHasBit(word, k) ==
    IF k < 16 THEN Bit(word[2], k) # 0 ELSE Bit(word[1], k - 16) # 0

is_printable_char(b) ==
    WordHasBit(PRINTABLE_CHAR_MASK[(b \div 32) + 1], b % 32)

is_printable_string(s) == \A i \in 1..Len(s) : is_printable_char(s[i])

\* A UTF-8 continuation byte within lo..hi.
ContIn(s, i, lo, hi) == i <= Len(s) /\ s[i] >= lo /\ s[i] <= hi

\* str::from_utf8(s).is_ok(): s, from index i on, is well-formed UTF-8.
RECURSIVE Utf8From(_, _)
Utf8From(s, i) ==
    IF i > Len(s) THEN TRUE
    ELSE LET b == s[i] IN
         CASE b < \h80 -> Utf8From(s, i + 1)
           [] b >= \hC2 /\ b <= \hDF ->
                ContIn(s, i + 1, \h80, \hBF) /\ Utf8From(s, i + 2)
           [] b = \hE0 ->
                /\ ContIn(s, i + 1, \hA0, \hBF) /\ ContIn(s, i + 2, \h80, \hBF)
                /\ Utf8From(s, i + 3)
           [] b = \hED ->
                /\ ContIn(s, i + 1, \h80, \h9F) /\ ContIn(s, i + 2, \h80, \hBF)
                /\ Utf8From(s, i + 3)
           [] (b >= \hE1 /\ b <= \hEC) \/ b = \hEE \/ b = \hEF ->
                /\ ContIn(s, i + 1, \h80, \hBF) /\ ContIn(s, i + 2, \h80, \hBF)
                /\ Utf8From(s, i + 3)
           [] b = \hF0 ->
                /\ ContIn(s, i + 1, \h90, \hBF) /\ ContIn(s, i + 2, \h80, \hBF)
                /\ ContIn(s, i + 3, \h80, \hBF) /\ Utf8From(s, i + 4)
           [] b >= \hF1 /\ b <= \hF3 ->
                /\ ContIn(s, i + 1, \h80, \hBF) /\ ContIn(s, i + 2, \h80, \hBF)
                /\ ContIn(s, i + 3, \h80, \hBF) /\ Utf8From(s, i + 4)
           [] b = \hF4 ->
                /\ ContIn(s, i + 1, \h80, \h8F) /\ ContIn(s, i + 2, \h80, \hBF)
                /\ ContIn(s, i + 3, \h80, \hBF) /\ Utf8From(s, i + 4)
           [] OTHER -> FALSE

from_utf8_ok(s) == Utf8From(s, 1)

to_printable_string(s) ==
    IF ~is_printable_string(s) THEN Err("InvalidPrintableString")
    ELSE IF ~from_utf8_ok(s) THEN Err("InvalidUTF8")
    ELSE [kind |-> "PrintableString", bytes |-> s]

----------------------------------------------------------------------------
(* object_identifier.rs *)

\* The for loop of ObjectIdentifier::new over the bytes after the first:
\* the error it returns, or current_length as the loop leaves it.
RECURSIVE ScanDigits(_, _)
ScanDigits(rest, current_length) ==
    IF rest = <<>> THEN [ok |-> TRUE, current_length |-> current_length]
    ELSE LET x == Head(rest) IN
         IF x < \h80 THEN ScanDigits(Tail(rest), 0)
         ELSE IF current_length = 0 /\ x = \h80
              THEN [ok |-> FALSE, err |-> "MalformedObjectIdentifier"]
         ELSE IF current_length + 1 > 4
              THEN [ok |-> FALSE, err |-> "ObjectIdentifierTooLarge"]
         ELSE ScanDigits(Tail(rest), current_length + 1)

\* new without the check after the loop that the last digit has ended: a
\* faulty variant that C5 must tell from new.
ObjectIdentifier_new_no_final_check(c) ==
    IF c = <<>> THEN Err("MalformedObjectIdentifier")
    ELSE IF Head(c) >= 3 * 40 THEN Err("MalformedObjectIdentifier")
    ELSE LET scan == ScanDigits(Tail(c), 0) IN
         IF ~scan.ok THEN Err(scan.err)
         ELSE [kind |-> "ObjectIdentifier", content |-> c]

ObjectIdentifier_new(c) ==
    IF c = <<>> THEN Err("MalformedObjectIdentifier")
    ELSE IF Head(c) >= 3 * 40 THEN Err("MalformedObjectIdentifier")
    ELSE LET scan == ScanDigits(Tail(c), 0) IN
         IF ~scan.ok THEN Err(scan.err)
         ELSE IF scan.current_length # 0 THEN Err("MalformedObjectIdentifier")
         ELSE [kind |-> "ObjectIdentifier", content |-> c]

\* Option<u32>.  A u32 is <<high 16 bits, low 16 bits>>.
NoneItem == [kind |-> "None"]
SomeItem(v) == [kind |-> "Some", v |-> v]

\* A byte as a u32.
U32OfByte(b) == <<0, b>>

\* (accumulator << 7) | low7 in u32: the bits shifted past bit 31 are lost.
ShiftIn7(accumulator, low7) ==
    << ((accumulator[1] * 128) % 65536) + (accumulator[2] \div 512),
       ((accumulator[2] % 512) * 128) + low7 >>

\* The for loop of the Later state from Rust index idx on.
RECURSIVE LaterDigit(_, _, _)
LaterDigit(c, idx, accumulator) ==
    IF idx >= Len(c)
    THEN [content |-> c, state |-> "Later", res |-> Panic]
    ELSE LET byte == c[idx + 1]
             acc == ShiftIn7(accumulator, byte % 128)
         IN  IF byte < \h80
             THEN [content |-> SubSeq(c, idx + 2, Len(c)), state |-> "Later",
                   res |-> SomeItem(acc)]
             ELSE LaterDigit(c, idx + 1, acc)

\* ObjectIdentifierIterator::next on an iterator with content c and state st.
iterator_next(c, st) ==
    IF c = <<>> THEN [content |-> c, state |-> st, res |-> NoneItem]
    ELSE CASE st = "First" ->
                [content |-> c, state |-> "Second",
                 res |-> SomeItem(U32OfByte(Head(c) \div 40))]
           [] st = "Second" ->
                [content |-> Tail(c), state |-> "Later",
                 res |-> SomeItem(U32OfByte(Head(c) % 40))]
           [] OTHER -> LaterDigit(c, 0, <<0, 0>>)

----------------------------------------------------------------------------
(* integer.rs *)

\* Option<u8> holds a byte; Option<u32> and Option<u64> hold the value as its
\* 4 or 8 bytes, most significant first.
ZeroBytes(n) == [i \in 1..n |-> 0]

\* fold(0, |accum, b| (accum << 8) | b) in a word of Len(accum) bytes: the
\* shift drops the top byte.
RECURSIVE FoldBytes(_, _)
FoldBytes(accum, s) ==
    IF s = <<>> THEN accum
    ELSE FoldBytes(Append(Tail(accum), Head(s)), Tail(s))

as_u8(s) ==
    IF Len(s) > 1 THEN NoneItem
    ELSE IF Len(s) > 0 THEN SomeItem(s[1]) ELSE NoneItem

as_u32(s) ==
    IF Len(s) > 4 THEN NoneItem ELSE SomeItem(FoldBytes(ZeroBytes(4), s))

as_u64(s) ==
    IF Len(s) > 8 THEN NoneItem ELSE SomeItem(FoldBytes(ZeroBytes(8), s))

----------------------------------------------------------------------------
(* lib.rs: the Parser.  Each method takes the fields of self it reads and   *)
(* returns the fields it leaves, with what it returns.                       *)

\* consume_one that moves the cursor before it looks for the byte: a faulty
\* variant that C12 must tell from consume_one.
consume_one_advance_on_eof(inp, pos) ==
    IF pos < Len(inp)
    THEN [ok |-> TRUE, pos |-> pos + 1, byte |-> inp[pos + 1]]
    ELSE Fail(pos + 1, "EOF")

consume_one(inp, pos) ==
    IF pos < Len(inp)
    THEN [ok |-> TRUE, pos |-> pos + 1, byte |-> inp[pos + 1]]
    ELSE Fail(pos, "EOF")

\* consume with a bounds check that is off by one, and consume that leaves
\* the cursor where it was: faulty variants that C3 and C10 must tell from
\* consume.
consume_off_by_one(inp, pos, count) ==
    IF count > Len(inp) \/ Len(inp) - count + 1 < pos THEN Fail(pos, "EOF")
    ELSE IF pos + count > Len(inp) THEN Fail(pos, "Panic")
    ELSE [ok |-> TRUE, pos |-> pos + count,
          bytes |-> SubSeq(inp, pos + 1, pos + count)]

consume_no_advance(inp, pos, count) ==
    IF count > Len(inp) \/ Len(inp) - count < pos THEN Fail(pos, "EOF")
    ELSE IF pos + count > Len(inp) THEN Fail(pos, "Panic")
    ELSE [ok |-> TRUE, pos |-> pos,
          bytes |-> SubSeq(inp, pos + 1, pos + count)]

\* &self.input[self.position .. self.position + count] panics when the range
\* ends past the slice.
consume(inp, pos, count) ==
    IF count > Len(inp) \/ Len(inp) - count < pos THEN Fail(pos, "EOF")
    ELSE IF pos + count > Len(inp) THEN Fail(pos, "Panic")
    ELSE [ok |-> TRUE, pos |-> pos + count,
          bytes |-> SubSeq(inp, pos + 1, pos + count)]

\* The for loop of read_length: (length_accumulator << 8) | byte in usize.
RECURSIVE AccumulateLength(_, _)
AccumulateLength(length_accumulator, rest) ==
    IF rest = <<>> THEN length_accumulator
    ELSE AccumulateLength(
             ((length_accumulator * 256) % UsizeModulus) + Head(rest),
             Tail(rest))

\* read_length without the check that a long-form value is at least 128: a
\* faulty variant that C4 must tell from read_length.
read_length_no_minimum(inp, pos) ==
    LET initial == consume_one(inp, pos) IN
    IF ~initial.ok THEN initial
    ELSE IF initial.byte < \h80
         THEN [ok |-> TRUE, pos |-> initial.pos, length |-> initial.byte]
    ELSE LET length_byte_count == initial.byte % 128 IN
         IF length_byte_count > usize_bytes
         THEN Fail(initial.pos, "OverlongLength")
         ELSE LET length_bytes == consume(inp, initial.pos, length_byte_count) IN
              IF ~length_bytes.ok THEN length_bytes
              ELSE IF length_bytes.bytes = <<>>
                   THEN Fail(length_bytes.pos, "InvalidLengthEncoding")
              ELSE IF Head(length_bytes.bytes) = 0
                   THEN Fail(length_bytes.pos, "InvalidLengthEncoding")
              ELSE [ok |-> TRUE, pos |-> length_bytes.pos,
                    length |-> AccumulateLength(Head(length_bytes.bytes),
                                                Tail(length_bytes.bytes))]

\* read_length that consumes the length bytes before it looks at their
\* count, and read_length that takes a field of no length bytes for the
\* length 0: faulty variants that C17 and C18 must tell from read_length.
read_length_count_checked_late(inp, pos) ==
    LET initial == consume_one(inp, pos) IN
    IF ~initial.ok THEN initial
    ELSE IF initial.byte < \h80
         THEN [ok |-> TRUE, pos |-> initial.pos, length |-> initial.byte]
    ELSE LET length_byte_count == initial.byte % 128
             length_bytes == consume(inp, initial.pos, length_byte_count)
         IN  IF ~length_bytes.ok THEN length_bytes
             ELSE IF length_byte_count > usize_bytes
                  THEN Fail(length_bytes.pos, "OverlongLength")
             ELSE IF length_bytes.bytes = <<>>
                  THEN Fail(length_bytes.pos, "InvalidLengthEncoding")
             ELSE IF Head(length_bytes.bytes) = 0
                  THEN Fail(length_bytes.pos, "InvalidLengthEncoding")
             ELSE LET length_accumulator ==
                          AccumulateLength(Head(length_bytes.bytes),
                                           Tail(length_bytes.bytes))
                  IN  IF length_accumulator < 128
                      THEN Fail(length_bytes.pos, "InvalidLengthEncoding")
                      ELSE [ok |-> TRUE, pos |-> length_bytes.pos,
                            length |-> length_accumulator]

read_length_indefinite_is_zero(inp, pos) ==
    LET initial == consume_one(inp, pos) IN
    IF ~initial.ok THEN initial
    ELSE IF initial.byte < \h80
         THEN [ok |-> TRUE, pos |-> initial.pos, length |-> initial.byte]
    ELSE LET length_byte_count == initial.byte % 128 IN
         IF length_byte_count > usize_bytes
         THEN Fail(initial.pos, "OverlongLength")
         ELSE LET length_bytes == consume(inp, initial.pos, length_byte_count) IN
              IF ~length_bytes.ok THEN length_bytes
              ELSE IF length_bytes.bytes = <<>>
                   THEN [ok |-> TRUE, pos |-> length_bytes.pos, length |-> 0]
              ELSE IF Head(length_bytes.bytes) = 0
                   THEN Fail(length_bytes.pos, "InvalidLengthEncoding")
              ELSE LET length_accumulator ==
                           AccumulateLength(Head(length_bytes.bytes),
                                            Tail(length_bytes.bytes))
                   IN  IF length_accumulator < 128
                       THEN Fail(length_bytes.pos, "InvalidLengthEncoding")
                       ELSE [ok |-> TRUE, pos |-> length_bytes.pos,
                             length |-> length_accumulator]

read_length(inp, pos) ==
    LET initial == consume_one(inp, pos) IN
    IF ~initial.ok THEN initial
    ELSE IF initial.byte < \h80
         THEN [ok |-> TRUE, pos |-> initial.pos, length |-> initial.byte]
    ELSE LET length_byte_count == initial.byte % 128 IN
         IF length_byte_count > usize_bytes
         THEN Fail(initial.pos, "OverlongLength")
         ELSE LET length_bytes == consume(inp, initial.pos, length_byte_count) IN
              IF ~length_bytes.ok THEN length_bytes
              ELSE IF length_bytes.bytes = <<>>
                   THEN Fail(length_bytes.pos, "InvalidLengthEncoding")
              ELSE IF Head(length_bytes.bytes) = 0
                   THEN Fail(length_bytes.pos, "InvalidLengthEncoding")
              ELSE LET length_accumulator ==
                           AccumulateLength(Head(length_bytes.bytes),
                                            Tail(length_bytes.bytes))
                   IN  IF length_accumulator < 128
                       THEN Fail(length_bytes.pos, "InvalidLengthEncoding")
                       ELSE [ok |-> TRUE, pos |-> length_bytes.pos,
                             length |-> length_accumulator]

\* What a reader leaves and returns: the cursor, the stack, the result.
Returned(pos, structs, res) ==
    [position |-> pos, structures |-> structs, res |-> res]

read_boolean(inp, pos, structs, length) ==
    IF length # 1 THEN Returned(pos, structs, Err("IncorrectLength"))
    ELSE LET b == consume_one(inp, pos) IN
         IF ~b.ok THEN Returned(b.pos, structs, Raise(b.err))
         ELSE IF b.byte = \h00
              THEN Returned(b.pos, structs, [kind |-> "Boolean", b |-> FALSE])
         ELSE IF b.byte = \hFF
              THEN Returned(b.pos, structs, [kind |-> "Boolean", b |-> TRUE])
         ELSE Returned(b.pos, structs, Err("Malformed"))

read_integer(inp, pos, structs, length) ==
    LET c == consume(inp, pos, length) IN
    IF ~c.ok THEN Returned(c.pos, structs, Raise(c.err))
    ELSE Returned(c.pos, structs, [kind |-> "Integer", bytes |-> c.bytes])

read_bit_string(inp, pos, structs, length) ==
    Returned(pos, structs, Err("NotImplemented"))

read_octet_string(inp, pos, structs, length) ==
    LET c == consume(inp, pos, length) IN
    IF ~c.ok THEN Returned(c.pos, structs, Raise(c.err))
    ELSE Returned(c.pos, structs, [kind |-> "OctetString", bytes |-> c.bytes])

read_null(inp, pos, structs, length) ==
    IF length # 0 THEN Returned(pos, structs, Err("IncorrectLength"))
    ELSE Returned(pos, structs, [kind |-> "Null"])

read_object_identifier(inp, pos, structs, length) ==
    LET oid_bytes == consume(inp, pos, length) IN
    IF ~oid_bytes.ok THEN Returned(oid_bytes.pos, structs, Raise(oid_bytes.err))
    ELSE Returned(oid_bytes.pos, structs, ObjectIdentifier_new(oid_bytes.bytes))

read_utf8_string(inp, pos, structs, length) ==
    LET utf8_bytes == consume(inp, pos, length) IN
    IF ~utf8_bytes.ok
    THEN Returned(utf8_bytes.pos, structs, Raise(utf8_bytes.err))
    ELSE IF ~from_utf8_ok(utf8_bytes.bytes)
         THEN Returned(utf8_bytes.pos, structs, Err("InvalidUTF8"))
    ELSE Returned(utf8_bytes.pos, structs,
                  [kind |-> "Utf8String", bytes |-> utf8_bytes.bytes])

read_printable_string(inp, pos, structs, length) ==
    LET c == consume(inp, pos, length) IN
    IF ~c.ok THEN Returned(c.pos, structs, Raise(c.err))
    ELSE Returned(c.pos, structs, to_printable_string(c.bytes))

read_ia5_string(inp, pos, structs, length) ==
    Returned(pos, structs, Err("NotImplemented"))

read_bmp_string(inp, pos, structs, length) ==
    Returned(pos, structs, Err("NotImplemented"))

StartOf(kind) ==
    IF kind = "Sequence" THEN [kind |-> "SequenceStart"]
    ELSE [kind |-> "SetStart"]

EndOf(kind) ==
    IF kind = "Sequence" THEN [kind |-> "SequenceEnd"]
    ELSE [kind |-> "SetEnd"]

\* read_structure that records the declared length as the end offset,
\* without the cursor added: a faulty variant that C1 must tell from
\* read_structure.
read_structure_relative_end(inp, pos, structs, length, kind) ==
    LET maximum_allowed_end ==
            IF structs = <<>> THEN Len(inp) ELSE Last(structs).end_position
    IN  IF length > maximum_allowed_end \/ pos > maximum_allowed_end - length
        THEN Returned(pos, structs, Err("EOF"))
        ELSE Returned(pos,
                      Append(structs,
                             [kind |-> kind, end_position |-> length]),
                      StartOf(kind))

\* read_structure that holds a composite to the end of the buffer and not to
\* the end of the innermost open frame, and read_structure that refuses a
\* composite that ends exactly where it may: faulty variants that C13 and
\* C16 must tell from read_structure.
read_structure_buffer_bound(inp, pos, structs, length, kind) ==
    LET maximum_allowed_end == Len(inp)
    IN  IF length > maximum_allowed_end \/ pos > maximum_allowed_end - length
        THEN Returned(pos, structs, Err("EOF"))
        ELSE Returned(pos,
                      Append(structs,
                             [kind |-> kind, end_position |-> pos + length]),
                      StartOf(kind))

read_structure_exact_fit_refused(inp, pos, structs, length, kind) ==
    LET maximum_allowed_end ==
            IF structs = <<>> THEN Len(inp) ELSE Last(structs).end_position
    IN  IF length >= maximum_allowed_end \/ pos >= maximum_allowed_end - length
        THEN Returned(pos, structs, Err("EOF"))
        ELSE Returned(pos,
                      Append(structs,
                             [kind |-> kind, end_position |-> pos + length]),
                      StartOf(kind))

read_structure(inp, pos, structs, length, kind) ==
    LET maximum_allowed_end ==
            IF structs = <<>> THEN Len(inp) ELSE Last(structs).end_position
    IN  IF length > maximum_allowed_end \/ pos > maximum_allowed_end - length
        THEN Returned(pos, structs, Err("EOF"))
        ELSE Returned(pos,
                      Append(structs,
                             [kind |-> kind, end_position |-> pos + length]),
                      StartOf(kind))

read_sequence(inp, pos, structs, length) ==
    read_structure(inp, pos, structs, length, "Sequence")

read_set(inp, pos, structs, length) ==
    read_structure(inp, pos, structs, length, "Set")

\* The match of next() on the tag.
dispatch(inp, pos, structs, value_type, length) ==
    CASE value_type = \h01 -> read_boolean(inp, pos, structs, length)
      [] value_type = \h02 -> read_integer(inp, pos, structs, length)
      [] value_type = \h03 -> read_bit_string(inp, pos, structs, length)
      [] value_type = \h04 -> read_octet_string(inp, pos, structs, length)
      [] value_type = \h05 -> read_null(inp, pos, structs, length)
      [] value_type = \h06 -> read_object_identifier(inp, pos, structs, length)
      [] value_type = \h0C -> read_utf8_string(inp, pos, structs, length)
      [] value_type = \h13 -> read_printable_string(inp, pos, structs, length)
      [] value_type = \h16 -> read_ia5_string(inp, pos, structs, length)
      [] value_type = \h1E -> read_bmp_string(inp, pos, structs, length)
      [] value_type = \h30 -> read_sequence(inp, pos, structs, length)
      [] value_type = \h31 -> read_set(inp, pos, structs, length)
      [] OTHER -> Returned(pos, structs, Err("UnrecognizedType"))

\* The tag, the length, the reader, with the reader started at the first
\* length byte, as if the length field had been peeked at and not consumed:
\* a faulty variant that C11 must tell from lines 230-247 of next().
read_value_length_peeked(inp, pos, structs) ==
    LET value_type == consume_one(inp, pos) IN
    IF ~value_type.ok THEN Returned(value_type.pos, structs, Raise(value_type.err))
    ELSE LET length == read_length(inp, value_type.pos) IN
         IF ~length.ok THEN Returned(length.pos, structs, Raise(length.err))
         ELSE dispatch(inp, value_type.pos, structs, value_type.byte,
                       length.length)

\* lines 230-247 of next(): the tag, the length, the reader.
read_value(inp, pos, structs) ==
    LET value_type == consume_one(inp, pos) IN
    IF ~value_type.ok THEN Returned(value_type.pos, structs, Raise(value_type.err))
    ELSE LET length == read_length(inp, value_type.pos) IN
         IF ~length.ok THEN Returned(length.pos, structs, Raise(length.err))
         ELSE dispatch(inp, length.pos, structs, value_type.byte, length.length)

\* next() that takes a cursor past the innermost end offset for the end of
\* the composite, and next() that returns the end marker without popping
\* the frame: faulty variants that C2 and C9 must tell from next().
next_no_overrun_check(inp, pos, structs) ==
    IF structs # <<>> /\ Last(structs).end_position <= pos
    THEN Returned(pos, Front(structs), EndOf(Last(structs).kind))
    ELSE read_value(inp, pos, structs)

next_end_no_pop(inp, pos, structs) ==
    IF structs # <<>> /\ Last(structs).end_position <= pos
    THEN IF Last(structs).end_position # pos
         THEN Returned(pos, structs, Err("StructureOverrun"))
         ELSE Returned(pos, structs, EndOf(Last(structs).kind))
    ELSE read_value(inp, pos, structs)

\* next() that pops the innermost frame before it compares its end offset
\* with the cursor, so that a StructureOverrun pops it too: a faulty variant
\* that C20 must tell from next().
next_pop_before_check(inp, pos, structs) ==
    IF structs # <<>> /\ Last(structs).end_position <= pos
    THEN IF Last(structs).end_position # pos
         THEN Returned(pos, Front(structs), Err("StructureOverrun"))
         ELSE Returned(pos, Front(structs), EndOf(Last(structs).kind))
    ELSE read_value(inp, pos, structs)

\* Parser::next().
next(inp, pos, structs) ==
    IF structs # <<>> /\ Last(structs).end_position <= pos
    THEN IF Last(structs).end_position # pos
         THEN Returned(pos, structs, Err("StructureOverrun"))
         ELSE Returned(pos, Front(structs), EndOf(Last(structs).kind))
    ELSE read_value(inp, pos, structs)

----------------------------------------------------------------------------
(* The arithmetic of the Parser on the platform word: for each method, the  *)
(* values that its additions, subtractions and shifts compute on the path   *)
(* it takes, as the integers they are before any wrapping.                   *)

\* self.position += 1, when the byte is there.
consume_one_arithmetic(inp, pos) ==
    IF pos < Len(inp) THEN {pos + 1} ELSE {}

\* self.input.len() - count, which the || reaches only when count is at most
\* the length, and self.position + count of the slice and of +=.
consume_arithmetic(inp, pos, count) ==
    IF count > Len(inp) THEN {}
    ELSE {Len(inp) - count}
             \cup (IF Len(inp) - count < pos THEN {} ELSE {pos + count})

\* length_accumulator << 8 for each length byte after the first.
RECURSIVE ShiftedValues(_, _)
ShiftedValues(length_accumulator, rest) ==
    IF rest = <<>> THEN {}
    ELSE {length_accumulator * 256}
             \cup ShiftedValues((length_accumulator * 256) + Head(rest),
                                Tail(rest))

read_length_arithmetic(inp, pos) ==
    LET initial == consume_one(inp, pos) IN
    consume_one_arithmetic(inp, pos)
        \cup (IF ~initial.ok \/ initial.byte < \h80 THEN {}
              ELSE LET length_byte_count == initial.byte % 128
                       length_bytes ==
                           consume(inp, initial.pos, length_byte_count)
                   IN  IF length_byte_count > usize_bytes THEN {}
                       ELSE consume_arithmetic(inp, initial.pos,
                                               length_byte_count)
                                \cup (IF \/ ~length_bytes.ok
                                         \/ length_bytes.bytes = <<>>
                                         \/ Head(length_bytes.bytes) = 0
                                      THEN {}
                                      ELSE ShiftedValues(
                                               Head(length_bytes.bytes),
                                               Tail(length_bytes.bytes))))

\* maximum_allowed_end - length, which the || reaches only when length is at
\* most maximum_allowed_end, and self.position + length of the push.
read_structure_arithmetic(inp, pos, structs, length) ==
    LET maximum_allowed_end ==
            IF structs = <<>> THEN Len(inp) ELSE Last(structs).end_position
    IN  IF length > maximum_allowed_end THEN {}
        ELSE {maximum_allowed_end - length}
                 \cup (IF pos > maximum_allowed_end - length THEN {}
                       ELSE {pos + length})

\* The arithmetic of the reader that the match of next() calls.
dispatch_arithmetic(inp, pos, structs, value_type, length) ==
    CASE value_type \in {\h02, \h04, \h06, \h0C, \h13} ->
           consume_arithmetic(inp, pos, length)
      [] value_type = \h01 ->
           IF length # 1 THEN {} ELSE consume_one_arithmetic(inp, pos)
      [] value_type \in {\h30, \h31} ->
           read_structure_arithmetic(inp, pos, structs, length)
      [] OTHER -> {}

\* The arithmetic of one call of next().
next_arithmetic(inp, pos, structs) ==
    IF structs # <<>> /\ Last(structs).end_position <= pos THEN {}
    ELSE LET value_type == consume_one(inp, pos)
             length == read_length(inp, value_type.pos)
         IN  consume_one_arithmetic(inp, pos)
                 \cup (IF ~value_type.ok THEN {}
                       ELSE read_length_arithmetic(inp, value_type.pos)
                                \cup (IF ~length.ok THEN {}
                                      ELSE dispatch_arithmetic(
                                               inp, length.pos, structs,
                                               value_type.byte,
                                               length.length)))

----------------------------------------------------------------------------
(* The inputs of the model. *)

\* Single bytes: every tag of next(), an unrecognized tag (07), short and
\* long-form length bytes, boolean contents, text and identifier contents.
ParserBytes ==
    {\h00, \h01, \h02, \h03, \h04, \h05, \h06, \h07, \h0C, \h13, \h16, \h1E,
     \h30, \h31, \h80, \h81, \h82, \h83, \hFF}

\* Headers of composites, whole primitive values, length fields of three
\* bytes, and the length field of the largest value of the platform word.
ParserItems ==
    { <<\h30, \h00>>, <<\h30, \h02>>, <<\h30, \h03>>, <<\h30, \h05>>,
      <<\h30, \h06>>,
      <<\h31, \h03>>,
      <<\h01, \h01, \h00>>, <<\h01, \h01, \hFF>>, <<\h05, \h00>>,
      <<\h02, \h01, \h03>>,
      <<\h83, \h00, \h00, \h05>>, <<\h83, \h01, \h00, \h80>>,
      <<\h82, \hFF, \hFF>> }

ParserChunks == {<<b>> : b \in ParserBytes} \cup ParserItems

OidBytes == {\h00, \h2B, \h78, \h80, \h81, \hFF}

\* The identifiers of the test oids().
OidExamples ==
    { <<\h2B, \h06, \h01, \h04, \h01, \h82, \h37, \h15, \h14>>,
      <<\h2A, \h86, \h48, \h86, \hF7, \h0D, \h01, \h01, \h01>>,
      <<2 * 40 + 39>>,
      <<\h00, \h85, \h01>> }

\* A, Z, a, z, 0, 9, space, ?, and *, @, [, DEL, 0x80, 0xFF.
PsBytes ==
    {\h41, \h5A, \h61, \h7A, \h30, \h39, \h20, \h3F,
     \h2A, \h40, \h5B, \h7F, \h80, \hFF}

IntByteValues == {\h00, \h03, \hFF}

----------------------------------------------------------------------------
(* The state machines. *)

ParserIdle ==
    /\ input = <<>>
    /\ position = 0
    /\ structures = <<>>
    /\ result = NoCall
    /\ before = [position |-> 0, structures |-> <<>>]
    /\ out = <<>>

OidIdle ==
    /\ content = <<>>
    /\ oid = NoCall
    /\ iterContent = <<>>
    /\ iterState = "None"
    /\ iterResult = NoCall
    /\ iterBefore = [content |-> <<>>, state |-> "None"]
    /\ digits = <<>>

PsIdle == bs = <<>> /\ psResult = NoCall

IntIdle == intBytes = <<>> /\ intResult = NoCall

\* Parser::new(input).
Init ==
    /\ \E n \in 0..MaxChunks : \E chunks \in [1..n -> ParserChunks] :
           input = Flatten(chunks)
    /\ position = 0
    /\ structures = <<>>
    /\ result = NoCall
    /\ before = [position |-> 0, structures |-> <<>>]
    /\ out = <<>>
    /\ OidIdle /\ PsIdle /\ IntIdle

\* One call of Parser::next() by the caller.
ParserNext ==
    LET r == next(input, position, structures) IN
    /\ position' = r.position
    /\ structures' = r.structures
    /\ result' = r.res
    /\ before' = [position |-> position, structures |-> structures]
    /\ out' = IF IsValue(r.res) THEN Append(out, r.res) ELSE out
    /\ UNCHANGED <<input, oidVars, psVars, intVars>>

Next == ParserNext

Spec == Init /\ [][Next]_vars

\* Parser::new(input), on the buffers of the sessions checked under
\* fairness.
FairInit ==
    /\ \E n \in 0..MaxFairChunks : \E chunks \in [1..n -> ParserChunks] :
           input = Flatten(chunks)
    /\ position = 0
    /\ structures = <<>>
    /\ result = NoCall
    /\ before = [position |-> 0, structures |-> <<>>]
    /\ out = <<>>
    /\ OidIdle /\ PsIdle /\ IntIdle

\* The caller of spec section 6 calls next() until it fails.
FairSpec == FairInit /\ [][Next]_vars /\ WF_vars(ParserNext)

\* A byte slice about to be handed to ObjectIdentifier::new.
InitOid ==
    /\ \/ \E n \in 0..MaxOidLen : content \in [1..n -> OidBytes]
       \/ content \in OidExamples
    /\ oid = NoCall
    /\ iterContent = <<>>
    /\ iterState = "None"
    /\ iterResult = NoCall
    /\ iterBefore = [content |-> <<>>, state |-> "None"]
    /\ digits = <<>>
    /\ ParserIdle /\ PsIdle /\ IntIdle

OidNew ==
    /\ oid = NoCall
    /\ oid' = ObjectIdentifier_new(content)
    /\ UNCHANGED <<content, iterContent, iterState, iterResult, iterBefore,
                   digits, parserVars, psVars, intVars>>

\* ObjectIdentifier::iter(), on an identifier that new returned.
OidIter ==
    /\ oid.kind = "ObjectIdentifier"
    /\ iterContent' = oid.content
    /\ iterState' = "First"
    /\ iterResult' = NoCall
    /\ iterBefore' = [content |-> <<>>, state |-> "None"]
    /\ digits' = <<>>
    /\ UNCHANGED <<content, oid, parserVars, psVars, intVars>>

\* ObjectIdentifierIterator::next().
OidIterNext ==
    /\ iterState # "None"
    /\ LET r == iterator_next(iterContent, iterState) IN
       /\ iterContent' = r.content
       /\ iterState' = r.state
       /\ iterResult' = r.res
       /\ iterBefore' = [content |-> iterContent, state |-> iterState]
       /\ digits' = IF r.res.kind = "Some" THEN Append(digits, r.res.v)
                    ELSE digits
    /\ UNCHANGED <<content, oid, parserVars, psVars, intVars>>

NextOid == OidNew \/ OidIter \/ OidIterNext

SpecOid == InitOid /\ [][NextOid]_vars

InitPs ==
    /\ \/ \E b \in Byte : bs = <<b>>
       \/ \E n \in 0..MaxPsLen : bs \in [1..n -> PsBytes]
    /\ psResult = NoCall
    /\ ParserIdle /\ OidIdle /\ IntIdle

ToPrintableString ==
    /\ psResult' = to_printable_string(bs)
    /\ UNCHANGED <<bs, parserVars, oidVars, intVars>>

NextPs == ToPrintableString

SpecPs == InitPs /\ [][NextPs]_vars

\* Integer::new(bytes).
InitInt ==
    /\ \E n \in 0..MaxIntLen : intBytes \in [1..n -> IntByteValues]
    /\ intResult = NoCall
    /\ ParserIdle /\ OidIdle /\ PsIdle

IntegerRead ==
    /\ intResult' = [kind |-> "Read", u8 |-> as_u8(intBytes),
                     u32 |-> as_u32(intBytes), u64 |-> as_u64(intBytes)]
    /\ UNCHANGED <<intBytes, parserVars, oidVars, psVars>>

NextInt == IntegerRead

SpecInt == InitInt /\ [][NextInt]_vars

----------------------------------------------------------------------------
(* What the claims speak of. *)

\* The most recent next() went on to read a value: it returned neither an
\* end marker nor StructureOverrun from the check of the innermost frame.
ReadAValue ==
    /\ result # NoCall
    /\ ~(/\ before.structures # <<>>
         /\ Last(before.structures).end_position <= before.position)

\* The tag and the length field that call read, when it read them whole.
TagRead == consume_one(input, before.position)
LengthRead == read_length(input, before.position + 1)
HeaderRead == ReadAValue /\ TagRead.ok /\ LengthRead.ok

\* That call found a first length byte at Rust index before.position + 1.
LengthByteRead == ReadAValue /\ before.position + 1 < Len(input)
FirstLengthByte == input[before.position + 2]

IsStart(r) == r.kind \in {"SequenceStart", "SetStart"}
IsEnd(r) == r.kind \in {"SequenceEnd", "SetEnd"}

IsPrefix(s, t) == Len(s) <= Len(t) /\ s = SubSeq(t, 1, Len(s))

----------------------------------------------------------------------------
(* C1 *)

Bad == [kind |-> "Bad"]

\* The value that content c under tag t encodes, for the types next()
\* decodes; Bad when c is not well formed for t.
PrimitiveValue(t, c) ==
    CASE t = \h01 ->
           IF Len(c) = 1 /\ c[1] \in {\h00, \hFF}
           THEN [kind |-> "Boolean", b |-> (c[1] = \hFF)] ELSE Bad
      [] t = \h02 -> [kind |-> "Integer", bytes |-> c]
      [] t = \h04 -> [kind |-> "OctetString", bytes |-> c]
      [] t = \h05 -> IF c = <<>> THEN [kind |-> "Null"] ELSE Bad
      [] t = \h06 ->
           IF IsErr(ObjectIdentifier_new(c)) THEN Bad
           ELSE [kind |-> "ObjectIdentifier", content |-> c]
      [] t = \h0C ->
           IF from_utf8_ok(c) THEN [kind |-> "Utf8String", bytes |-> c]
           ELSE Bad
      [] t = \h13 ->
           IF \A i \in 1..Len(c) : is_printable_char(c[i])
           THEN [kind |-> "PrintableString", bytes |-> c] ELSE Bad
      [] OTHER -> Bad

\* The values of the primitives that s holds back to back from Rust index i
\* on, with a Bad where s stops being such a run.  Within the bounds every
\* length a buffer can satisfy is in the short form.
RECURSIVE PrimitivesFrom(_, _)
PrimitivesFrom(s, i) ==
    IF i = Len(s) THEN <<>>
    ELSE IF i + 2 > Len(s) \/ s[i + 2] >= \h80 \/ i + 2 + s[i + 2] > Len(s)
         THEN <<Bad>>
    ELSE <<PrimitiveValue(s[i + 1], SubSeq(s, i + 3, i + 2 + s[i + 2]))>>
         \o PrimitivesFrom(s, i + 2 + s[i + 2])

\* s is one composite header whose declared length is the size of the
\* well-formed primitives after it.
OneComposite(s) ==
    /\ Len(s) >= 2
    /\ s[1] \in {\h30, \h31}
    /\ s[2] = Len(s) - 2
    /\ \A i \in 1..Len(PrimitivesFrom(s, 2)) : PrimitivesFrom(s, 2)[i] # Bad

CompositeKind(s) == IF s[1] = \h30 THEN "Sequence" ELSE "Set"

ExpectedValues(s) ==
    <<StartOf(CompositeKind(s))>> \o PrimitivesFrom(s, 2)
        \o <<EndOf(CompositeKind(s))>>

\* C1: on a buffer that is one composite header followed by exactly the
\* well-formed primitives it declares, the calls of next() return the start
\* marker, the inner values in buffer order and the end marker of the same
\* kind, and every call after those fails with EOF.
C1_CompositeOrder ==
    OneComposite(input) =>
        /\ IsPrefix(out, ExpectedValues(input))
        /\ result.kind # "Panic"
        /\ IsErr(result) => out = ExpectedValues(input) /\ result = Err("EOF")

\* The buffer of the test sequence(), read to its end.
C1_Witness ==
    /\ input = <<\h30, \h06, \h01, \h01, \h00, \h01, \h01, \hFF>>
    /\ out = << [kind |-> "SequenceStart"],
                [kind |-> "Boolean", b |-> FALSE],
                [kind |-> "Boolean", b |-> TRUE],
                [kind |-> "SequenceEnd"] >>
    /\ result = Err("EOF")

----------------------------------------------------------------------------
(* C2 *)

\* The kinds of the composites that the markers of vs leave open, outermost
\* first; <<"Bad">> once an end marker matches no open start marker of its
\* kind.
RECURSIVE OpenKinds(_)
OpenKinds(vs) ==
    IF vs = <<>> THEN <<>>
    ELSE LET open == OpenKinds(Front(vs))
             v == Last(vs)
         IN  IF open = <<"Bad">> THEN open
             ELSE IF IsStart(v)
                  THEN Append(open, IF v.kind = "SequenceStart"
                                    THEN "Sequence" ELSE "Set")
             ELSE IF IsEnd(v)
                  THEN IF open # <<>> /\ EndOf(Last(open)) = v
                       THEN Front(open) ELSE <<"Bad">>
             ELSE open

\* C2: an end marker is returned only by a call that finds the stack
\* non-empty and the cursor equal to the innermost end offset; the call pops
\* that frame alone, moves nothing else, and the marker is of the kind of the
\* start marker that pushed the frame.  A call that finds the cursor past the
\* innermost end offset fails with StructureOverrun and pops nothing.
C2_EndMarkers ==
    /\ IsEnd(result) =>
          /\ before.structures # <<>>
          /\ before.position = Last(before.structures).end_position
          /\ structures = Front(before.structures)
          /\ position = before.position
          /\ result = EndOf(Last(before.structures).kind)
    /\ OpenKinds(out) = [i \in 1..Len(structures) |-> structures[i].kind]
    /\ (/\ result # NoCall
        /\ before.structures # <<>>
        /\ before.position > Last(before.structures).end_position) =>
          /\ result = Err("StructureOverrun")
          /\ structures = before.structures
          /\ position = before.position

\* An end marker was returned earlier in the session, and now a call finds
\* the cursor past the innermost end offset.
C2_Witness ==
    /\ result = Err("StructureOverrun")
    /\ \E i \in 1..Len(out) : IsEnd(out[i])

----------------------------------------------------------------------------
(* C3 *)

\* The header read by the most recent call declares more bytes than the
\* buffer has left after it.
DeclaresTooMuch ==
    HeaderRead /\ LengthRead.length > Len(input) - LengthRead.pos

\* The error of lines 233-247 for a tag t whose declared length is more
\* than what is left.
TruncatedError(t, length) ==
    CASE t \in {\h02, \h04, \h06, \h0C, \h13, \h30, \h31} -> "EOF"
      [] t = \h01 -> IF length = 1 THEN "EOF" ELSE "IncorrectLength"
      [] t = \h05 -> "IncorrectLength"
      [] t \in {\h03, \h16, \h1E} -> "NotImplemented"
      [] OTHER -> "UnrecognizedType"

\* C3 as stated: whatever the tag, a header that declares more bytes than
\* remain makes next() fail with EOF.
C3_AlwaysEOF == DeclaresTooMuch => result = Err("EOF")

\* C3, amended: a header that declares more bytes than remain makes next()
\* fail, with EOF for the tags whose reader consumes the declared length and
\* for a boolean of declared length 1, and with the reader's own error for
\* the others; no call reads past the end of the buffer.
C3_TruncatedFails ==
    /\ result.kind # "Panic"
    /\ DeclaresTooMuch =>
           result = Err(TruncatedError(TagRead.byte, LengthRead.length))

\* An integer header that declares 5 bytes where fewer remain.
C3_Witness ==
    /\ DeclaresTooMuch
    /\ TagRead.byte = \h02
    /\ LengthRead.length = 5
    /\ result = Err("EOF")

----------------------------------------------------------------------------
(* C4 *)

\* The most recent call read a long-form first length byte, and the length
\* bytes it counts are all in the buffer.
LongFormRead ==
    /\ LengthByteRead
    /\ FirstLengthByte >= \h80
    /\ before.position + 2 + (FirstLengthByte % 128) <= Len(input)

LengthByteCount == FirstLengthByte % 128

LengthBytes ==
    SubSeq(input, before.position + 3, before.position + 2 + LengthByteCount)

\* The big-endian value of bytes is less than 128.
ValueBelow128(bytes) ==
    /\ \A i \in 1..(Len(bytes) - 1) : bytes[i] = 0
    /\ bytes # <<>> => Last(bytes) < 128

NonCanonical(bytes) ==
    ValueBelow128(bytes) \/ (bytes # <<>> /\ Head(bytes) = 0)

\* C4 as stated: every long-form length field whose value is less than 128
\* or whose first length byte is 0x00 is rejected with
\* InvalidLengthEncoding.
C4_AnyLongForm ==
    (LongFormRead /\ NonCanonical(LengthBytes)) =>
        result = Err("InvalidLengthEncoding")

\* C4, amended: every long-form length field of at most usize_bytes()
\* length bytes, all in the buffer, whose value is less than 128 or whose
\* first length byte is 0x00 is rejected with InvalidLengthEncoding, whatever
\* follows the field.
C4_NonCanonicalRejected ==
    (LongFormRead /\ LengthByteCount <= usize_bytes
        /\ NonCanonical(LengthBytes)) =>
        result = Err("InvalidLengthEncoding")

\* A length of 5 in the long form, 81 05, with bytes after it.
C4_Witness ==
    /\ LongFormRead
    /\ LengthBytes = <<5>>
    /\ before.position + 3 < Len(input)
    /\ result = Err("InvalidLengthEncoding")

----------------------------------------------------------------------------
(* C9 *)

\* C9: the successful calls of a session number at most the length of the
\* buffer, and a caller that keeps calling next() is returned an error.
C9_Terminates ==
    /\ [](Len(out) <= Len(input))
    /\ <>IsErr(result)

\* A buffer of 4 bytes that gives 4 values before the error.
C9_Witness ==
    /\ Len(input) >= 4
    /\ Len(out) = Len(input)
    /\ IsErr(result)

----------------------------------------------------------------------------
(* C10 *)

\* The most recent call read a header whose length field is one byte below
\* 0x80, and returned a value.
ShortFormValue ==
    /\ HeaderRead
    /\ FirstLengthByte < \h80
    /\ IsValue(result)

\* C10 as stated: such a call moves the cursor by 1 + L.
C10_OnePlusL ==
    ShortFormValue => position - before.position = 1 + FirstLengthByte

\* C10, amended: such a call moves the cursor by 2 + L (the tag, the length
\* byte, the L content bytes) when it returns a primitive value, and by 2
\* when it returns a composite-start marker, whose content is left to the
\* calls that follow.
C10_TwoPlusL ==
    ShortFormValue =>
        position - before.position =
            IF IsStart(result) THEN 2 ELSE 2 + FirstLengthByte

\* An integer of one content byte, read in 3 bytes.
C10_Witness ==
    /\ ShortFormValue
    /\ result.kind = "Integer"
    /\ FirstLengthByte = 1
    /\ position = before.position + 3

----------------------------------------------------------------------------
(* C5 *)

\* Some digit of c, after the first byte, starts with the byte 0x80.
DigitStartsWith80(c) ==
    \E i \in 2..Len(c) : c[i] = \h80 /\ (i = 2 \/ c[i - 1] < \h80)

\* What C5 says new must refuse.
MustBeRefused(c) ==
    \/ c = <<>>
    \/ c[1] >= 120
    \/ Last(c) >= \h80
    \/ DigitStartsWith80(c)

\* C5: ObjectIdentifier::new fails on the empty input, on a first byte of
\* 120 or more, on content that ends in a byte with the high bit set and on
\* a digit that starts with 0x80; and the iterator of an identifier that new
\* returned never reaches unreachable!() and returns None exactly when it has
\* no content byte left.
C5_OidValidated ==
    /\ (oid # NoCall /\ MustBeRefused(content)) => IsErr(oid)
    /\ iterResult.kind # "Panic"
    /\ iterResult # NoCall =>
          (iterResult = NoneItem <=> iterBefore.content = <<>>)
    /\ iterResult = NoneItem => iterContent = <<>>

\* 00 85 01 of the test oids(), iterated to its end.
C5_Witness ==
    /\ content = <<\h00, \h85, \h01>>
    /\ oid.kind = "ObjectIdentifier"
    /\ Len(digits) = 3
    /\ iterResult = NoneItem

----------------------------------------------------------------------------
(* C6 *)

\* A natural number n as <<n \div 65536, n % 65536>>, which holds the
\* values past the integers of TLC; a u32 is such a pair with a first
\* component below 65536.
Natural(high, low) == <<high + (low \div 65536), low % 65536>>

\* The base-128 big-endian value of the low 7 bits of the bytes of run.
RECURSIVE Base128(_)
Base128(run) ==
    IF run = <<>> THEN <<0, 0>>
    ELSE LET rest == Base128(Front(run)) IN
         Natural(rest[1] * 128, (rest[2] * 128) + (Last(run) % 128))

\* One value for each maximal run of s that ends at a byte with the high bit
\* clear, from index i on, where the run in progress started at index from.
RECURSIVE RunValues(_, _, _)
RunValues(s, from, i) ==
    IF i > Len(s) THEN <<>>
    ELSE IF s[i] < \h80
         THEN <<Base128(SubSeq(s, from, i))>> \o RunValues(s, i + 1, i + 1)
         ELSE RunValues(s, from, i + 1)

ExpectedDigits(b) ==
    <<Natural(0, b[1] \div 40), Natural(0, b[1] % 40)>> \o RunValues(b, 2, 2)

\* C6 as stated: for every b that new accepts, iter() produces b[0] / 40,
\* b[0] mod 40 and then the base-128 value of each run of b[1..], which is
\* 2 digits plus one for each byte of b[1..] with the high bit clear.
C6_DigitsExact ==
    (oid.kind = "ObjectIdentifier" /\ iterResult = NoneItem) =>
        /\ digits = ExpectedDigits(content)
        /\ Len(digits) =
               2 + Cardinality({i \in 2..Len(content) : content[i] < \h80})

----------------------------------------------------------------------------
(* C7 *)

\* should_be_printable of the test printable_chars(): A-Z, a-z, 0-9, space
\* and ' ( ) + , - . / : = ?
ShouldBePrintable(x) ==
    \/ (x >= 65 /\ x <= 90)
    \/ (x >= 97 /\ x <= 122)
    \/ (x >= 48 /\ x <= 57)
    \/ x \in {32, 39, 40, 41, 43, 44, 45, 46, 47, 58, 61, 63}

\* C7: the bitmap test accepts exactly the bytes of the printable
\* repertoire, so to_printable_string returns the string when every byte of
\* it is in the repertoire and fails with InvalidPrintableString otherwise.
C7_PrintableSet ==
    psResult # NoCall =>
        IF \A i \in 1..Len(bs) : ShouldBePrintable(bs[i])
        THEN psResult = [kind |-> "PrintableString", bytes |-> bs]
        ELSE psResult = Err("InvalidPrintableString")

\* A string with '?', bit 31 of its word, accepted.
C7_Witness ==
    /\ Len(bs) >= 2
    /\ \E i \in 1..Len(bs) : bs[i] = \h3F
    /\ psResult.kind = "PrintableString"

----------------------------------------------------------------------------
(* C8 *)

\* The bytes of s folded big-endian into a word of n bytes, for Len(s) <= n.
BigEndian(s, n) == [i \in 1..n |-> IF i <= n - Len(s) THEN 0
                                   ELSE s[i - (n - Len(s))]]

\* C8 as stated: each accessor returns no value exactly when the slice is
\* longer than its width, and the big-endian fold of the slice otherwise,
\* the empty slice included.
C8_WidthLimits ==
    intResult # NoCall =>
        /\ intResult.u8 =
               IF Len(intBytes) > 1 THEN NoneItem
               ELSE SomeItem(BigEndian(intBytes, 1)[1])
        /\ intResult.u32 =
               IF Len(intBytes) > 4 THEN NoneItem
               ELSE SomeItem(BigEndian(intBytes, 4))
        /\ intResult.u64 =
               IF Len(intBytes) > 8 THEN NoneItem
               ELSE SomeItem(BigEndian(intBytes, 8))

----------------------------------------------------------------------------
(* C11 *)

\* C11 as stated: every call of next() that returns a value, the start and
\* end markers included, leaves the cursor strictly past where it found it.
C11_AlwaysAdvances == IsValue(result) => position > before.position

\* C11, amended: a call that returns a value other than an end marker leaves
\* the cursor at least 2 bytes, the tag and the first length byte, past
\* where it found it; a call that returns an end marker leaves the cursor
\* where it found it.
C11_AdvancesUnlessEnd ==
    IsValue(result) =>
        IF IsEnd(result) THEN position = before.position
        ELSE position >= before.position + 2

\* An end marker returned after a start marker and an inner value, with the
\* cursor where the call found it.
C11_Witness ==
    /\ IsEnd(result)
    /\ Len(out) >= 3
    /\ position = before.position
    /\ position > 0

----------------------------------------------------------------------------
(* C12 *)

\* C12: in every state of a session the cursor is at most the length of the
\* buffer, and every call of next(), failed or not, leaves the cursor at or
\* past where it found it.
C12_CursorBounded ==
    /\ position <= Len(input)
    /\ before.position <= position

\* A call that failed after it had consumed a header that ends the buffer,
\* in a session that had returned a value before.
C12_Witness ==
    /\ IsErr(result)
    /\ Len(out) >= 1
    /\ position > before.position
    /\ position = Len(input)

----------------------------------------------------------------------------
(* C13 *)

\* C13: in every state of a session the end offsets of the frames of the
\* stack do not increase from the outermost frame to the innermost, and no
\* end offset is past the length of the buffer.
C13_FramesNested ==
    /\ \A i \in 1..(Len(structures) - 1) :
           structures[i + 1].end_position <= structures[i].end_position
    /\ \A i \in 1..Len(structures) :
           structures[i].end_position <= Len(input)

\* A composite open inside another that ends before the outer one does.
C13_Witness ==
    /\ Len(structures) = 2
    /\ IsStart(result)
    /\ structures[2].end_position < structures[1].end_position
    /\ structures[2].end_position > position

----------------------------------------------------------------------------
(* C14 *)

\* C14 as stated: after every call of next() that returns a value, the
\* cursor is at most the end offset of the innermost open frame, when there
\* is one.  That no call made after successful calls alone finds the cursor
\* past that end offset, and so none returns StructureOverrun, is what this
\* says of the state the next call starts from.
C14_CaughtWhenRead ==
    (IsValue(result) /\ structures # <<>>) =>
        position <= Last(structures).end_position

----------------------------------------------------------------------------
(* C15 *)

\* The bytes that the most recent call of the iterator took off its content.
BytesTaken ==
    SubSeq(iterBefore.content, 1, Len(iterBefore.content) - Len(iterContent))

\* C15 as stated: every digit that the iterator of an accepted identifier
\* decodes from the bytes after the first is less than 2^32, and the u32
\* that the accumulator returns for it is the base-128 value of its bytes.
C15_DigitsFit ==
    (iterResult.kind = "Some" /\ iterBefore.state = "Later") =>
        /\ Base128(BytesTaken)[1] < 65536
        /\ iterResult.v = Base128(BytesTaken)

----------------------------------------------------------------------------
(* C16 *)

\* The most recent call read the header of a composite.
CompositeHeaderRead == HeaderRead /\ TagRead.byte \in {\h30, \h31}

\* The kind of that composite.
HeaderKind == IF TagRead.byte = \h30 THEN "Sequence" ELSE "Set"

\* Where a composite read by that call may end at the latest: the end
\* offset of the innermost frame the call found, or the length of the
\* buffer when it found none.
AllowedEnd ==
    IF before.structures = <<>> THEN Len(input)
    ELSE Last(before.structures).end_position

\* C16: a call that reads a composite header of declared length L, with the
\* cursor at p after the header, pushes the one frame of end offset p + L,
\* returns the start marker and leaves the cursor at p when p + L is at most
\* the end offset of the innermost open frame (the length of the buffer when
\* none is open), and fails with EOF and pushes nothing otherwise.
C16_CompositeFit ==
    CompositeHeaderRead =>
        IF LengthRead.pos + LengthRead.length <= AllowedEnd
        THEN /\ structures =
                    Append(before.structures,
                           [kind |-> HeaderKind,
                            end_position |->
                                LengthRead.pos + LengthRead.length])
             /\ result = StartOf(HeaderKind)
             /\ position = LengthRead.pos
        ELSE /\ result = Err("EOF")
             /\ structures = before.structures

\* A composite with content that ends exactly where the composite it is
\* in ends.
C16_Witness ==
    /\ CompositeHeaderRead
    /\ before.structures # <<>>
    /\ LengthRead.length > 0
    /\ LengthRead.pos + LengthRead.length = AllowedEnd
    /\ IsStart(result)
    /\ Len(structures) = 2

----------------------------------------------------------------------------
(* C17 *)

\* The most recent call read a first length byte with the high bit set that
\* counts more length bytes than the platform word has bytes.
OverlongCountRead ==
    /\ LengthByteRead
    /\ FirstLengthByte >= \h80
    /\ FirstLengthByte % 128 > usize_bytes

\* C17: a first length byte with the high bit set whose low 7 bits are more
\* than usize_bytes() makes the call fail with OverlongLength, with the
\* cursor right after that byte: none of the bytes it counts is consumed,
\* whether or not they are in the buffer and whatever they are.
C17_OverlongRefused ==
    OverlongCountRead =>
        /\ result = Err("OverlongLength")
        /\ position = before.position + 2
        /\ structures = before.structures

\* A count of 3 length bytes that are not all in the buffer.
C17_Witness ==
    /\ OverlongCountRead
    /\ FirstLengthByte = \h83
    /\ before.position + 2 < Len(input)
    /\ before.position + 2 + 3 > Len(input)
    /\ result = Err("OverlongLength")

----------------------------------------------------------------------------
(* C18 *)

\* The most recent call read the first length byte 0x80, the long form with
\* no length byte after it.
IndefiniteRead == LengthByteRead /\ FirstLengthByte = \h80

\* C18: a length field whose first byte is 0x80 makes the call fail with
\* InvalidLengthEncoding, whatever the tag before it and the bytes after it
\* are; the call returns no value, pushes no frame and consumes nothing past
\* that byte.
C18_IndefiniteRefused ==
    IndefiniteRead =>
        /\ result = Err("InvalidLengthEncoding")
        /\ position = before.position + 2
        /\ structures = before.structures

\* A sequence header of indefinite length with a whole value after it.
C18_Witness ==
    /\ IndefiniteRead
    /\ TagRead.byte = \h30
    /\ before.position + 3 < Len(input)
    /\ result = Err("InvalidLengthEncoding")

----------------------------------------------------------------------------
(* C19 *)

\* C19: whatever the buffer and the declared length, up to the largest
\* value of the platform word, every value that the arithmetic of
\* read_length, consume and read_structure computes in a call of next() is
\* within 0 .. UsizeMax: no shift of the length accumulator loses a bit, no
\* subtraction goes below 0 and no addition goes past the word.
C19_ArithmeticInRange ==
    result # NoCall =>
        \A v \in next_arithmetic(input, before.position, before.structures) :
            v >= 0 /\ v <= UsizeMax

\* An integer header that declares the largest length of the word, which
\* is more than the length of the buffer.
C19_Witness ==
    /\ HeaderRead
    /\ TagRead.byte = \h02
    /\ LengthRead.length = UsizeMax
    /\ before.position > 0
    /\ result = Err("EOF")

----------------------------------------------------------------------------
(* C20 *)

\* C20: a call of next() that returns an error leaves the stack as it
\* found it, whether or not it moved the cursor before it failed.
C20_FailureKeepsStack ==
    IsErr(result) => structures = before.structures

\* A call that failed inside an open composite after it had consumed the
\* header and a content byte.
C20_Witness ==
    /\ result = Err("Malformed")
    /\ before.structures # <<>>
    /\ position = before.position + 3
    /\ structures = before.structures

====
